---- MODULE Spec2Model ----
(***************************************************************************)
(* CapturedParameters (ShuttleAutomation.h): the four operations Reset,    *)
(* Visit, Get and Set that the class template generates from a pack of     *)
(* parameter descriptors, run against one owning structure, one            *)
(* CommandParameters store and an optional post-set function.              *)
(*                                                                         *)
(* The pack is instantiated with three descriptors: a scalar whose member  *)
(* is a double and whose Value type is float, an enumeration, and a scalar *)
(* whose member and Value type are both int.  Numbers are integers; a      *)
(* float can hold only the even ones, so static_cast<float> of a double    *)
(* rounds (ties to even), as the narrowing conversion does.                *)
(***************************************************************************)
EXTENDS Integers, Sequences, FiniteSets, TLC

VARIABLES
    structure,   \* Params: field i is the member descriptor i points to
    parms,       \* CommandParameters: key -> text, only for the keys present
    symbols,     \* the enumeration's table of internal names, in index order
    hookKind,    \* which PostSetFn the object was constructed with
    effect,      \* state of the Effect outside the parameters
    last,        \* the last call: operation, fetch result, return value
    hookCalls,   \* the PostSetFn invocations made by the last call
    visitLog,    \* the visitor methods invoked by the last call
    writtenUnder \* the table and index under which Get wrote the enum entry

vars == <<structure, parms, symbols, hookKind, effect, last, hookCalls,
          visitLog, writtenUnder>>

\* How far above max a scalar field of the structure may lie.
Margin == 1
\* How many fields one visitor may overwrite during one Visit.
MaxVisitorWrites == 1

----------------------------------------------------------------------------
\* Texts of the store

Fast == <<"F", "a", "s", "t">>
Slow == <<"S", "l", "o", "w">>
Bogus == <<"B", "o", "g", "u", "s">>
Junk == <<"x">>

\* The table as declared; a later build may list the same names otherwise.
DeclaredSymbols == <<Fast, Slow>>

\* template <typename EffectType, const auto &...Parameters>
Parameters ==
    << [key |-> "Gain", kind |-> "scalar", member |-> "double",
        value |-> "float", def |-> 2, min |-> 2, max |-> 4],
       [key |-> "Mode", kind |-> "enum", member |-> "int",
        value |-> "int", def |-> 0, min |-> 0, max |-> 0],
       [key |-> "Count", kind |-> "scalar", member |-> "int",
        value |-> "int", def |-> 9, min |-> 9, max |-> 9] >>

NParams == Len(Parameters)
Fields == 1..NParams

\* The field a descriptor's member pointer (param.mem) selects, by its key.
FieldOf(key) == CHOOSE i \in Fields : Parameters[i].key = key
GainF == FieldOf("Gain")
ModeF == FieldOf("Mode")
CountF == FieldOf("Count")

\* The values a member can hold: for a scalar the numbers within the bounds
\* and some above them, for an enumeration the indices of the table (Get
\* indexes the table with the field, so callers keep it inside the table).
FieldDomain(i) ==
    IF Parameters[i].kind = "enum"
    THEN 0..(Len(DeclaredSymbols) - 1)
    ELSE Parameters[i].min..(Parameters[i].max + Margin)

\* Every state the owning structure can be in.
Structures ==
    { s \in [Fields -> UNION { FieldDomain(i) : i \in Fields }] :
        \A i \in Fields : s[i] \in FieldDomain(i) }

----------------------------------------------------------------------------
\* Conversions

\* double -> float: the nearest representable (even) number, ties to the one
\* whose last place is even.
RoundToFloat(v) ==
    IF v % 2 = 0 THEN v
    ELSE IF (v - 1) % 4 = 0 THEN v - 1 ELSE v + 1

\* static_cast<Value>(structure.*(param.mem))
StaticCastValue(p, v) ==
    IF p.member = "double" /\ p.value = "float" THEN RoundToFloat(v) ELSE v

Digit == <<"0", "1", "2", "3", "4", "5", "6", "7", "8", "9">>

RECURSIVE DigitsOf(_)
DigitsOf(n) ==
    IF n < 10 THEN <<Digit[n + 1]>>
    ELSE DigitsOf(n \div 10) \o <<Digit[(n % 10) + 1]>>

\* The text Write stores for a number.
FormatNumber(v) == IF v < 0 THEN <<"-">> \o DigitsOf(-v) ELSE DigitsOf(v)

IsDigit(c) == \E d \in 1..10 : Digit[d] = c
DigitVal(c) == (CHOOSE d \in 1..10 : Digit[d] = c) - 1

RECURSIVE DigitsValue(_)
DigitsValue(s) ==
    IF s = <<>> THEN 0
    ELSE 10 * DigitsValue(SubSeq(s, 1, Len(s) - 1)) + DigitVal(s[Len(s)])

\* Reading a text as a number: an optional sign, then one digit or more.
ParseNumber(text) ==
    LET neg == text # <<>> /\ text[1] = "-"
        body == IF neg THEN Tail(text) ELSE text
    IN  IF body = <<>> \/ \E k \in 1..Len(body) : ~IsDigit(body[k])
        THEN [ok |-> FALSE, val |-> 0]
        ELSE [ok |-> TRUE,
              val |-> IF neg THEN -DigitsValue(body) ELSE DigitsValue(body)]

\* Reading a text as a value of the descriptor's Value type.
ParseValue(p, text) ==
    LET n == ParseNumber(text)
    IN  IF n.ok /\ p.value = "float"
        THEN [ok |-> TRUE, val |-> RoundToFloat(n.val)]
        ELSE n

----------------------------------------------------------------------------
\* CommandParameters

\* parms.Write(key, text): the entry under key is text from now on.
Write(pr, key, text) ==
    [k \in (DOMAIN pr) \cup {key} |-> IF k = key THEN text ELSE pr[k]]

\* parms.ReadAndVerify(key, &temp, def, min, max).  absentOk: whether a key
\* the store does not hold counts as the default having been read.
ReadAndVerify(pr, p, absentOk) ==
    IF p.key \notin DOMAIN pr
    THEN [ok |-> absentOk /\ p.min <= p.def /\ p.def <= p.max, temp |-> p.def]
    ELSE LET v == ParseValue(p, pr[p.key])
         IN  IF v.ok /\ p.min <= v.val /\ v.val <= p.max
             THEN [ok |-> TRUE, temp |-> v.val]
             ELSE [ok |-> FALSE, temp |-> p.def]

\* parms.ReadAndVerify(key, &temp, def, symbols, nSymbols)
ReadAndVerifyEnum(pr, p, syms, absentOk) ==
    IF p.key \notin DOMAIN pr
    THEN [ok |-> absentOk, temp |-> p.def]
    ELSE IF \E k \in 1..Len(syms) : syms[k] = pr[p.key]
         THEN [ok |-> TRUE,
               temp |-> (CHOOSE k \in 1..Len(syms) : syms[k] = pr[p.key]) - 1]
         ELSE [ok |-> FALSE, temp |-> p.def]

----------------------------------------------------------------------------
\* The post-set function given to the constructor

\* "none": the default constructor, PostSetFn is empty.
\* "normalize": lowers the gain to its minimum in the table's second mode and
\*    accepts an update only if the gain it found was below its maximum.
\* "stateful": keeps a run parity in the effect and writes it into the count.
HookKinds == {"none", "normalize", "stateful"}

\* This.PostSetFn(effect, structure, isUpdate)
PostSetFn(kind, eff, st, isUpdate) ==
    IF kind = "normalize"
    THEN [ret |-> isUpdate /\ st[GainF] < Parameters[GainF].max,
          structure |-> IF st[ModeF] = 1
                        THEN [st EXCEPT ![GainF] = Parameters[GainF].min]
                        ELSE st,
          effect |-> eff]
    ELSE [ret |-> TRUE,
          structure |-> [st EXCEPT ![CountF] = Parameters[CountF].min + eff.runs],
          effect |-> [eff EXCEPT !.runs = (eff.runs + 1) % 2]]

\* What one invocation of the post-set function looked like from outside.
HookCall(st, isUpdate, h) ==
    [isUpdate |-> isUpdate, saw |-> st, ret |-> h.ret,
     wrote |-> { i \in Fields : h.structure[i] # st[i] }]

----------------------------------------------------------------------------
\* Reset

\* Variant: += in place of =.
ResetOne_Accumulates(st, i) == [st EXCEPT ![i] = @ + Parameters[i].def]

\* Variant: the overload for enumerations assigns nothing.
ResetOne_SkipsEnum(st, i) ==
    IF Parameters[i].kind = "enum" THEN st
    ELSE [st EXCEPT ![i] = Parameters[i].def]

\* structure.*(param.mem) = param.def
ResetOne(st, i) == [st EXCEPT ![i] = Parameters[i].def]

\* (ResetOne(structure, Parameters), ...)
RECURSIVE ResetAll(_, _)
ResetAll(st, i) ==
    IF i > NParams THEN st ELSE ResetAll(ResetOne(st, i), i + 1)

\* Variant: the post-set function is called before the assignments.
DoReset_HookFirst(eff, st, kind) ==
    LET h == PostSetFn(kind, eff, st, FALSE)
    IN  IF kind # "none"
        THEN [structure |-> ResetAll(h.structure, 1), effect |-> h.effect,
              hookCalls |-> <<HookCall(st, FALSE, h)>>]
        ELSE [structure |-> ResetAll(st, 1), effect |-> eff,
              hookCalls |-> <<>>]

DoReset(eff, st, kind) ==
    LET assigned == ResetAll(st, 1)
        h == PostSetFn(kind, eff, assigned, FALSE)
    IN  IF kind # "none"
        THEN [structure |-> h.structure, effect |-> h.effect,
              hookCalls |-> <<HookCall(assigned, FALSE, h)>>]
        ELSE [structure |-> assigned, effect |-> eff, hookCalls |-> <<>>]

----------------------------------------------------------------------------
\* Visit

\* A visitor: the fields it overwrites, each with the value it stores there.
Visitors ==
    UNION { { S \in [W -> UNION { FieldDomain(i) : i \in Fields }] :
                \A i \in W : S[i] \in FieldDomain(i) } :
            W \in { W \in SUBSET Fields : Cardinality(W) <= MaxVisitorWrites } }

\* Variant: the visitor is handed a copy of the field.
VisitOne_OnCopy(st, S, i) ==
    [structure |-> st,
     call |-> [method |-> IF Parameters[i].kind = "enum"
                          THEN "DefineEnum" ELSE "Define",
               key |-> Parameters[i].key,
               wrote |-> i \in DOMAIN S,
               value |-> IF i \in DOMAIN S THEN S[i] ELSE st[i]]]

\* S.Define(structure.*(param.mem), ...) or S.DefineEnum(...)
VisitOne(st, S, i) ==
    [structure |-> IF i \in DOMAIN S THEN [st EXCEPT ![i] = S[i]] ELSE st,
     call |-> [method |-> IF Parameters[i].kind = "enum"
                          THEN "DefineEnum" ELSE "Define",
               key |-> Parameters[i].key,
               wrote |-> i \in DOMAIN S,
               value |-> IF i \in DOMAIN S THEN S[i] ELSE st[i]]]

\* (VisitOne(structure, S, Parameters), ...)
RECURSIVE DoVisitFrom(_, _, _, _)
DoVisitFrom(st, S, i, log) ==
    IF i > NParams THEN [structure |-> st, visitLog |-> log]
    ELSE LET one == VisitOne(st, S, i)
         IN  DoVisitFrom(one.structure, S, i + 1, Append(log, one.call))

DoVisit(st, S) == DoVisitFrom(st, S, 1, <<>>)

----------------------------------------------------------------------------
\* Get

\* Variant: an enumeration is written as its index.
GetOne_EnumAsIndex(st, pr, syms, i) ==
    Write(pr, Parameters[i].key,
          FormatNumber(StaticCastValue(Parameters[i], st[i])))

\* Variant: a scalar is written as its default.
GetOne_WritesDefault(st, pr, syms, i) ==
    IF Parameters[i].kind = "enum"
    THEN Write(pr, Parameters[i].key, syms[st[i] + 1])
    ELSE Write(pr, Parameters[i].key, FormatNumber(Parameters[i].def))

\* parms.Write(param.key, static_cast<Value>(structure.*(param.mem))), or for
\* an enumeration parms.Write(param.key, param.symbols[...].Internal())
GetOne(st, pr, syms, i) ==
    IF Parameters[i].kind = "enum"
    THEN Write(pr, Parameters[i].key, syms[st[i] + 1])
    ELSE Write(pr, Parameters[i].key,
               FormatNumber(StaticCastValue(Parameters[i], st[i])))

\* (GetOne(structure, parms, Parameters), ...)
RECURSIVE DoGetFrom(_, _, _, _)
DoGetFrom(st, pr, syms, i) ==
    IF i > NParams THEN pr
    ELSE DoGetFrom(st, GetOne(st, pr, syms, i), syms, i + 1)

DoGet(st, pr, syms) == DoGetFrom(st, pr, syms, 1)

----------------------------------------------------------------------------
\* Set

\* Variant: temp is assigned whether or not it verified.
SetOne_AssignsUnverified(st, pr, syms, absentOk, i) ==
    LET r == IF Parameters[i].kind = "enum"
             THEN ReadAndVerifyEnum(pr, Parameters[i], syms, absentOk)
             ELSE ReadAndVerify(pr, Parameters[i], absentOk)
    IN  [ok |-> r.ok, structure |-> [st EXCEPT ![i] = r.temp]]

\* Variant: an enumeration is resolved against the table as first declared.
SetOne_DeclaredTable(st, pr, syms, absentOk, i) ==
    LET r == IF Parameters[i].kind = "enum"
             THEN ReadAndVerifyEnum(pr, Parameters[i], DeclaredSymbols, absentOk)
             ELSE ReadAndVerify(pr, Parameters[i], absentOk)
    IN  IF ~r.ok THEN [ok |-> FALSE, structure |-> st]
        ELSE [ok |-> TRUE, structure |-> [st EXCEPT ![i] = r.temp]]

\* temp is read and verified; only then structure.*(param.mem) = temp
SetOne(st, pr, syms, absentOk, i) ==
    LET r == IF Parameters[i].kind = "enum"
             THEN ReadAndVerifyEnum(pr, Parameters[i], syms, absentOk)
             ELSE ReadAndVerify(pr, Parameters[i], absentOk)
    IN  IF ~r.ok THEN [ok |-> FALSE, structure |-> st]
        ELSE [ok |-> TRUE, structure |-> [st EXCEPT ![i] = r.temp]]

\* (SetOne(structure, parms, Parameters) && ...): stops at the first false
RECURSIVE SetAll(_, _, _, _, _)
SetAll(st, pr, syms, absentOk, i) ==
    IF i > NParams THEN [ok |-> TRUE, structure |-> st, reads |-> NParams]
    ELSE LET one == SetOne(st, pr, syms, absentOk, i)
         IN  IF ~one.ok
             THEN [ok |-> FALSE, structure |-> one.structure, reads |-> i]
             ELSE SetAll(one.structure, pr, syms, absentOk, i + 1)

\* Variant: the post-set function's result is dropped.
DoSet_IgnoresHookResult(eff, st, kind, pr, syms, absentOk) ==
    LET all == SetAll(st, pr, syms, absentOk, 1)
        h == PostSetFn(kind, eff, all.structure, TRUE)
    IN  IF ~all.ok \/ kind = "none"
        THEN [ret |-> all.ok, structure |-> all.structure, effect |-> eff,
              reads |-> all.reads, hookCalls |-> <<>>]
        ELSE [ret |-> TRUE, structure |-> h.structure, effect |-> h.effect,
              reads |-> all.reads,
              hookCalls |-> <<HookCall(all.structure, TRUE, h)>>]

DoSet(eff, st, kind, pr, syms, absentOk) ==
    LET all == SetAll(st, pr, syms, absentOk, 1)
        h == PostSetFn(kind, eff, all.structure, TRUE)
    IN  IF ~all.ok
        THEN [ret |-> FALSE, structure |-> all.structure, effect |-> eff,
              reads |-> all.reads, hookCalls |-> <<>>]
        ELSE IF kind = "none"
        THEN [ret |-> TRUE, structure |-> all.structure, effect |-> eff,
              reads |-> all.reads, hookCalls |-> <<>>]
        ELSE [ret |-> h.ret, structure |-> h.structure, effect |-> h.effect,
              reads |-> all.reads,
              hookCalls |-> <<HookCall(all.structure, TRUE, h)>>]

----------------------------------------------------------------------------
\* The calls

Idle == [op |-> "none", present |-> FALSE, ret |-> FALSE, reads |-> 0,
         absentOk |-> FALSE, again |-> FALSE]

\* again: the call before was a Reset that had a structure, and so is this.
Called(op, present, ret, reads, absentOk) ==
    [op |-> op, present |-> present, ret |-> ret, reads |-> reads,
     absentOk |-> absentOk,
     again |-> op = "Reset" /\ present /\ last.op = "Reset" /\ last.present]

NoneWritten == [table |-> <<>>, index |-> 0]

\* void Reset(Effect &effect) const.  present: FetchParameters gave a
\* structure.
Reset(present) ==
    /\ last' = Called("Reset", present, FALSE, 0, FALSE)
    /\ visitLog' = <<>>
    /\ IF present
       THEN LET r == DoReset(effect, structure, hookKind)
            IN  /\ structure' = r.structure
                /\ effect' = r.effect
                /\ hookCalls' = r.hookCalls
       ELSE /\ hookCalls' = <<>>
            /\ UNCHANGED <<structure, effect>>
    /\ UNCHANGED <<parms, symbols, hookKind, writtenUnder>>

\* void Visit(Effect &effect, SettingsVisitor &S) const
Visit(present, S) ==
    /\ last' = Called("Visit", present, FALSE, 0, FALSE)
    /\ hookCalls' = <<>>
    /\ IF present
       THEN LET r == DoVisit(structure, S)
            IN  /\ structure' = r.structure
                /\ visitLog' = r.visitLog
       ELSE /\ visitLog' = <<>>
            /\ UNCHANGED structure
    /\ UNCHANGED <<parms, symbols, hookKind, effect, writtenUnder>>

\* void Get(const Effect &effect, CommandParameters &parms) const
Get(present) ==
    /\ last' = Called("Get", present, FALSE, 0, FALSE)
    /\ hookCalls' = <<>>
    /\ visitLog' = <<>>
    /\ IF present
       THEN /\ parms' = DoGet(structure, parms, symbols)
            /\ writtenUnder' = [table |-> symbols, index |-> structure[ModeF]]
       ELSE UNCHANGED <<parms, writtenUnder>>
    /\ UNCHANGED <<structure, symbols, hookKind, effect>>

\* Variant: without a structure Set reports success.
Set_AbsentSucceeds(present, absentOk) ==
    /\ visitLog' = <<>>
    /\ IF present
       THEN LET r == DoSet(effect, structure, hookKind, parms, symbols, absentOk)
            IN  /\ structure' = r.structure
                /\ effect' = r.effect
                /\ hookCalls' = r.hookCalls
                /\ last' = Called("Set", TRUE, r.ret, r.reads, absentOk)
       ELSE /\ hookCalls' = <<>>
            /\ last' = Called("Set", FALSE, TRUE, 0, FALSE)
            /\ UNCHANGED <<structure, effect>>
    /\ UNCHANGED <<parms, symbols, hookKind, writtenUnder>>

\* bool Set(Effect &effect, const CommandParameters &parms) const
Set(present, absentOk) ==
    /\ visitLog' = <<>>
    /\ IF present
       THEN LET r == DoSet(effect, structure, hookKind, parms, symbols, absentOk)
            IN  /\ structure' = r.structure
                /\ effect' = r.effect
                /\ hookCalls' = r.hookCalls
                /\ last' = Called("Set", TRUE, r.ret, r.reads, absentOk)
       ELSE /\ hookCalls' = <<>>
            /\ last' = Called("Set", FALSE, FALSE, 0, FALSE)
            /\ UNCHANGED <<structure, effect>>
    /\ UNCHANGED <<parms, symbols, hookKind, writtenUnder>>

----------------------------------------------------------------------------
\* The callers of the four operations

\* The least number of the descriptor's Value type above its maximum.
NextAbove(p) == IF p.value = "float" THEN p.max + 2 ELSE p.max + 1

\* The texts a caller may put under a descriptor's key before a Set: for an
\* enumeration its names and a name it lacks; for a scalar its default, a
\* number above its maximum and a text that is no number.
CallerTexts(i) ==
    IF Parameters[i].kind = "enum"
    THEN { DeclaredSymbols[k] : k \in 1..Len(DeclaredSymbols) } \cup {Bogus}
    ELSE { FormatNumber(Parameters[i].def),
           FormatNumber(NextAbove(Parameters[i])), Junk }

\* The orders in which a build may list the enumeration's names.
SymbolOrders ==
    { t \in [1..Len(DeclaredSymbols) ->
               { DeclaredSymbols[k] : k \in 1..Len(DeclaredSymbols) }] :
        \A a, b \in 1..Len(DeclaredSymbols) : a # b => t[a] # t[b] }

Forget(i) == IF i = ModeF THEN NoneWritten ELSE writtenUnder

\* A caller fills in one entry of the store.
EditStore(i, text) ==
    /\ parms' = Write(parms, Parameters[i].key, text)
    /\ writtenUnder' = Forget(i)
    /\ last' = Idle
    /\ hookCalls' = <<>>
    /\ visitLog' = <<>>
    /\ UNCHANGED <<structure, symbols, hookKind, effect>>

\* A caller removes one entry of the store.
EraseStore(i) ==
    /\ Parameters[i].key \in DOMAIN parms
    /\ parms' = [k \in (DOMAIN parms) \ {Parameters[i].key} |-> parms[k]]
    /\ writtenUnder' = Forget(i)
    /\ last' = Idle
    /\ hookCalls' = <<>>
    /\ visitLog' = <<>>
    /\ UNCHANGED <<structure, symbols, hookKind, effect>>

\* A later build lists the names of the table in another order.
Reorder(t) ==
    /\ t # symbols
    /\ symbols' = t
    /\ last' = Idle
    /\ hookCalls' = <<>>
    /\ visitLog' = <<>>
    /\ UNCHANGED <<structure, parms, hookKind, effect, writtenUnder>>

----------------------------------------------------------------------------

Init ==
    /\ structure \in Structures
    /\ parms = [k \in {} |-> <<>>]
    /\ symbols = DeclaredSymbols
    /\ hookKind \in HookKinds
    /\ effect = [runs |-> 0]
    /\ last = Idle
    /\ hookCalls = <<>>
    /\ visitLog = <<>>
    /\ writtenUnder = NoneWritten

Next ==
    \/ \E present \in BOOLEAN : Reset(present)
    \/ \E S \in Visitors : Visit(TRUE, S)
    \/ Visit(FALSE, <<>>)
    \/ \E present \in BOOLEAN : Get(present)
    \/ \E present, absentOk \in BOOLEAN : Set(present, absentOk)
    \/ \E i \in Fields : \E text \in CallerTexts(i) : EditStore(i, text)
    \/ \E i \in Fields : EraseStore(i)

Spec == Init /\ [][Next]_vars

\* Get and Set when builds with another order of the table come between.
NextReorder ==
    \/ \E present \in BOOLEAN : Get(present)
    \/ \E present, absentOk \in BOOLEAN : Set(present, absentOk)
    \/ \E i \in Fields : \E text \in CallerTexts(i) : EditStore(i, text)
    \/ \E t \in SymbolOrders : Reorder(t)

SpecReorder == Init /\ [][NextReorder]_vars

----------------------------------------------------------------------------
\* What the properties speak about

Defaults == [i \in Fields |-> Parameters[i].def]
Scalars == { i \in Fields : Parameters[i].kind = "scalar" }

\* What read-and-validate gives for descriptor i on a store.
ReadOf(pr, syms, absentOk, i) ==
    IF Parameters[i].kind = "enum"
    THEN ReadAndVerifyEnum(pr, Parameters[i], syms, absentOk)
    ELSE ReadAndVerify(pr, Parameters[i], absentOk)

\* The first descriptor, in declaration order, whose read-and-validate fails
\* on a store; 0 when none fails.
FirstFail(pr, syms, absentOk) ==
    LET bad == { i \in Fields : ~ReadOf(pr, syms, absentOk, i).ok }
    IN  IF bad = {} THEN 0
        ELSE CHOOSE i \in bad : \A j \in bad : i <= j

\* The same two for the store and the table of the current state.
ReadNow(i) == ReadOf(parms, symbols, last.absentOk, i)
FailNow == FirstFail(parms, symbols, last.absentOk)

SetRan == last.op = "Set" /\ last.present
InBounds(st) ==
    \A i \in Scalars : Parameters[i].min <= st[i] /\ st[i] <= Parameters[i].max
Representable(st) ==
    \A i \in Scalars : StaticCastValue(Parameters[i], st[i]) = st[i]
IndexIn(syms, name) == (CHOOSE k \in 1..Len(syms) : syms[k] = name) - 1

----------------------------------------------------------------------------
\* C1: when descriptor k is the first whose read-and-validate fails, Set
\* returns false, every descriptor before k holds the value read from the
\* store, and descriptor k and every later one keep the value they had
\* before the call.
C1_FailedSetIsPartial ==
    [][ (last'.op = "Set" /\ last'.present
         /\ FirstFail(parms, symbols, last'.absentOk) # 0)
        => LET k == FirstFail(parms, symbols, last'.absentOk)
           IN  /\ ~last'.ret
               /\ \A i \in Fields :
                    structure'[i] =
                      IF i < k
                      THEN ReadOf(parms, symbols, last'.absentOk, i).temp
                      ELSE structure[i] ]_vars

\* A Set from a store with every key that failed at the second descriptor:
\* the first holds what was read, the third does not hold what the store
\* would have given it.
C1_Witness ==
    /\ SetRan /\ FailNow = 2 /\ ~last.ret
    /\ DOMAIN parms = { Parameters[i].key : i \in Fields }
    /\ structure[1] = ReadNow(1).temp
    /\ ReadNow(3).ok /\ structure[3] # ReadNow(3).temp

\* C2 as stated: when every read-and-validate succeeds Set returns the
\* hook's value, or true without a hook; and when the hook returns false
\* every field still holds the value read from the store.
C2_AsStated ==
    (SetRan /\ FailNow = 0)
    => IF hookKind = "none" THEN last.ret
       ELSE /\ Len(hookCalls) = 1
            /\ last.ret = hookCalls[1].ret
            /\ ~hookCalls[1].ret
               => \A i \in Fields : structure[i] = ReadNow(i).temp

\* C2, amended: the same, except that when the hook returns false a field
\* holds the value read from the store unless the hook itself overwrote it;
\* Set undoes none of its assignments.
C2_SetReturnsHookResult ==
    (SetRan /\ FailNow = 0)
    => IF hookKind = "none"
       THEN last.ret /\ \A i \in Fields : structure[i] = ReadNow(i).temp
       ELSE /\ Len(hookCalls) = 1
            /\ last.ret = hookCalls[1].ret
            /\ \A i \in Fields :
                 /\ hookCalls[1].saw[i] = ReadNow(i).temp
                 /\ i \notin hookCalls[1].wrote
                    => structure[i] = ReadNow(i).temp

\* Every field validated, the hook returned false, Set returned false.
C2_Witness ==
    /\ SetRan /\ FailNow = 0 /\ hookKind # "none"
    /\ Len(hookCalls) = 1 /\ ~hookCalls[1].ret /\ ~last.ret
    /\ \A i \in Fields : structure[i] = ReadNow(i).temp

\* C3 as stated: a configured hook is invoked once per Reset call and once
\* per Set call, after all per-field work, and observes every new value.
C3_AsStated ==
    (hookKind # "none" /\ last.present /\ last.op \in {"Reset", "Set"})
    => /\ Len(hookCalls) = 1
       /\ hookCalls[1].isUpdate = (last.op = "Set")
       /\ \A i \in Fields :
            hookCalls[1].saw[i] =
              IF last.op = "Set" THEN ReadNow(i).temp ELSE Defaults[i]

\* C3, amended: with the structure present a configured hook is invoked
\* exactly once per Reset call and exactly once per Set call in which every
\* read-and-validate succeeds, after all per-field work, observing every new
\* value (isUpdate false for Reset, true for Set); a Set that fails at a
\* descriptor does not invoke it.
C3_HookAfterFieldWork ==
    (hookKind # "none" /\ last.present /\ last.op \in {"Reset", "Set"})
    => IF last.op = "Set" /\ FailNow # 0
       THEN hookCalls = <<>>
       ELSE /\ Len(hookCalls) = 1
            /\ hookCalls[1].isUpdate = (last.op = "Set")
            /\ \A i \in Fields :
                 hookCalls[1].saw[i] =
                   IF last.op = "Set" THEN ReadNow(i).temp ELSE Defaults[i]

\* A Set whose hook saw a gain and a mode that are not the defaults and that
\* the structure did not hold before every field was assigned.
C3_Witness ==
    /\ SetRan /\ hookKind # "none" /\ FailNow = 0
    /\ Len(hookCalls) = 1 /\ hookCalls[1].isUpdate
    /\ hookCalls[1].saw[GainF] # Defaults[GainF]
    /\ hookCalls[1].saw[ModeF] # Defaults[ModeF]

\* C4 as stated: from a structure whose scalar fields lie within their
\* bounds, Get into a store and then Set from that store returns true and
\* leaves every scalar field equal to its value before the Get.
C4_AsStated ==
    [][ (last.op = "Get" /\ last.present /\ InBounds(structure)
         /\ last'.op = "Set" /\ last'.present)
        => /\ last'.ret
           /\ \A i \in Scalars : structure'[i] = structure[i] ]_vars

\* C4, amended: the same when moreover every scalar field is representable
\* in its descriptor's Value type, and no hook is configured or the hook
\* returns true and overwrites no scalar field.
C4_RoundTrip ==
    [][ (last.op = "Get" /\ last.present /\ InBounds(structure)
         /\ Representable(structure)
         /\ last'.op = "Set" /\ last'.present)
        => /\ last'.reads = NParams
           /\ hookKind = "none" => hookCalls' = <<>>
           /\ hookKind # "none" =>
                /\ Len(hookCalls') = 1
                /\ last'.ret = hookCalls'[1].ret
                /\ \A i \in Scalars : hookCalls'[1].saw[i] = structure[i]
           /\ (hookKind = "none"
               \/ (hookCalls'[1].ret /\ hookCalls'[1].wrote \cap Scalars = {}))
              => /\ last'.ret
                 /\ \A i \in Scalars : structure'[i] = structure[i] ]_vars

\* A Set that returned true from the store a Get filled from this structure,
\* whose gain is above its default.
C4_Witness ==
    /\ SetRan /\ last.ret /\ writtenUnder # NoneWritten
    /\ InBounds(structure) /\ Representable(structure)
    /\ structure[GainF] # Parameters[GainF].def
    /\ DOMAIN parms = { Parameters[i].key : i \in Fields }
    /\ \A i \in Scalars : parms[Parameters[i].key] = FormatNumber(structure[i])

\* C5 as stated: Reset twice in a row leaves the structure as Reset once
\* does, also with a hook configured.
C5_AsStated ==
    [][ (last.op = "Reset" /\ last.present
         /\ last'.op = "Reset" /\ last'.present)
        => structure' = structure ]_vars

\* C5, amended: the same when no hook is configured or the hook's writes are
\* determined by the structure and isUpdate alone; a hook that keeps state in
\* the effect is not covered.
C5_ResetIdempotent ==
    [][ (last.op = "Reset" /\ last.present
         /\ last'.op = "Reset" /\ last'.present
         /\ hookKind \in {"none", "normalize"})
        => /\ last'.again
           /\ structure' = structure
           /\ hookCalls' = hookCalls ]_vars

\* The second of two Resets in a row, each of which ran the normalizing hook,
\* with every field at its default.
C5_Witness ==
    /\ last.op = "Reset" /\ last.present /\ last.again
    /\ hookKind = "normalize"
    /\ Len(hookCalls) = 1 /\ structure = Defaults

\* C6: when the effect has no owning structure, Reset, Visit and Get assign
\* no field, call no visitor method, write nothing to the store and do not
\* invoke the hook, and Set returns false without reading the store or
\* invoking the hook.
C6_NoStructureNoOp ==
    [][ (last'.op \in {"Reset", "Visit", "Get", "Set"} /\ ~last'.present)
        => /\ structure' = structure
           /\ parms' = parms
           /\ effect' = effect
           /\ hookCalls' = <<>>
           /\ visitLog' = <<>>
           /\ last'.reads = 0
           /\ last'.op = "Set" => ~last'.ret ]_vars

\* A Set without a structure, from a store that would have passed, with a
\* hook configured: false, nothing read.
C6_Witness ==
    /\ last.op = "Set" /\ ~last.present /\ ~last.ret /\ last.reads = 0
    /\ hookKind # "none"
    /\ FirstFail(parms, symbols, FALSE) = 0
    /\ \E i \in Fields : structure[i] # ReadOf(parms, symbols, FALSE, i).temp

\* C7 as stated: after Get the store holds under every descriptor's key the
\* field's current value (for an enumeration the internal name at the stored
\* index); Get changes no field and does not invoke the hook.
C7_AsStated ==
    [][ (last'.op = "Get" /\ last'.present)
        => /\ structure' = structure
           /\ hookCalls' = <<>>
           /\ \A i \in Fields :
                /\ Parameters[i].key \in DOMAIN parms'
                /\ parms'[Parameters[i].key] =
                     IF Parameters[i].kind = "enum"
                     THEN symbols[structure[i] + 1]
                     ELSE FormatNumber(structure[i]) ]_vars

\* C7, amended: the entry of a scalar descriptor is the field's current value
\* converted to the descriptor's Value type.
C7_GetWritesEveryKey ==
    [][ (last'.op = "Get" /\ last'.present)
        => /\ structure' = structure
           /\ effect' = effect
           /\ hookCalls' = <<>>
           /\ \A i \in Fields :
                /\ Parameters[i].key \in DOMAIN parms'
                /\ parms'[Parameters[i].key] =
                     IF Parameters[i].kind = "enum"
                     THEN symbols[structure[i] + 1]
                     ELSE FormatNumber(
                            StaticCastValue(Parameters[i], structure[i])) ]_vars

\* A Get with a hook configured that wrote the second name of the table and
\* the rounded gain.
C7_Witness ==
    /\ last.op = "Get" /\ last.present /\ hookKind # "none"
    /\ structure[ModeF] = 1 /\ parms["Mode"] = symbols[2]
    /\ ~Representable(structure)
    /\ parms["Gain"] = FormatNumber(RoundToFloat(structure[GainF]))

C9_ResetAssignsDefaults ==
    (last.op = "Reset" /\ last.present)
    => IF hookKind = "none"
       THEN hookCalls = <<>> /\ structure = Defaults
       ELSE /\ Len(hookCalls) = 1
            /\ ~hookCalls[1].isUpdate
            /\ hookCalls[1].saw = Defaults
            /\ \A i \in Fields :
                 i \notin hookCalls[1].wrote => structure[i] = Defaults[i]

\* A Reset whose hook returned false and which left every default in place.
C9_Witness ==
    /\ last.op = "Reset" /\ last.present /\ hookKind # "none"
    /\ Len(hookCalls) = 1 /\ ~hookCalls[1].ret
    /\ hookCalls[1].saw = Defaults /\ structure = Defaults

\* C10: Visit with the structure present calls the visitor once per
\* descriptor in declaration order, Define for a scalar and DefineEnum for an
\* enumeration, on the live field: what the visitor stores is in the
\* structure and a field it does not write keeps its value; the hook is not
\* invoked.
C10_VisitEachOnce ==
    [][ (last'.op = "Visit" /\ last'.present)
        => /\ hookCalls' = <<>>
           /\ effect' = effect
           /\ parms' = parms
           /\ Len(visitLog') = NParams
           /\ \A i \in Fields :
                /\ visitLog'[i].key = Parameters[i].key
                /\ visitLog'[i].method =
                     IF Parameters[i].kind = "enum"
                     THEN "DefineEnum" ELSE "Define"
                /\ structure'[i] = visitLog'[i].value
                /\ ~visitLog'[i].wrote => structure'[i] = structure[i] ]_vars

\* A Visit with a hook configured whose visitor overwrote the enum field.
C10_Witness ==
    /\ last.op = "Visit" /\ last.present /\ hookKind # "none"
    /\ Len(visitLog) = NParams
    /\ visitLog[ModeF].wrote /\ visitLog[ModeF].method = "DefineEnum"
    /\ ~visitLog[GainF].wrote /\ structure[GainF] # Defaults[GainF]

====
